---- MODULE Spec2Model ----
(***************************************************************************)
(* TradeFlash Lite (src/App.tsx): the WebSocket connection effect, the     *)
(* message dispatcher and the state it reconciles.                         *)
(*                                                                         *)
(* JavaScript values are tagged records (t is the result of typeof, with   *)
(* "null" and "array" told apart); strings that the code only compares are *)
(* TLA+ strings, strings it processes character by character (symbols) are *)
(* sequences of one-character strings.                                     *)
(***************************************************************************)
EXTENDS Integers, Sequences, FiniteSets, TLC

VARIABLES
    minNotional, minQty,      \* useState, lines 150-151
    wsState,                  \* useState, line 153
    equity, options, sweeps, blocks, wl, err, basis,   \* useState, lines 154-160
    wsRef,                    \* useRef, line 147: index into sockets, 0 is null
    started, stopped, retry,  \* the effect has run; its closure variables, lines 164-165
    sockets,                  \* every WebSocket created at line 170, in creation order
    timers,                   \* pending setTimeout(connect, backoff) delays, line 181
    lastEv,                   \* history: the event handled by the last step
    history,                  \* history: one entry per reconnection scheduled
    nflow                     \* history: number of sweeps/blocks frames dispatched

store == <<equity, options, sweeps, blocks, wl, basis>>
vars == <<minNotional, minQty, wsState, equity, options, sweeps, blocks, wl, err,
          basis, wsRef, started, stopped, retry, sockets, timers, lastEv, history,
          nflow>>

-----------------------------------------------------------------------------
(* Bounds of the model *)

MaxSockets == 7
MaxFlowFrames == 2
MaxSymLen == 3
MaxRows == 3

-----------------------------------------------------------------------------
(* JavaScript values *)

JNull == [t |-> "null"]
JUndef == [t |-> "undefined"]
JNum(n) == [t |-> "number", fin |-> TRUE, v |-> n]
JInf == [t |-> "number", fin |-> FALSE, v |-> 1]
JStr(s) == [t |-> "string", v |-> s]
JChars(cs) == [t |-> "string", chars |-> cs]
JBool(b) == [t |-> "boolean", v |-> b]
JArr(s) == [t |-> "array", v |-> s]
JObj(r) == [t |-> "object", v |-> r]

\* x === null || x === undefined
Nullish(x) == x.t \in {"null", "undefined"}

\* !x
Falsy(x) ==
    \/ Nullish(x)
    \/ x = JBool(FALSE)
    \/ x = JNum(0)
    \/ x = JStr("")
    \/ x = JChars(<<>>)

\* x.k for a non-nullish x of the shapes a JSON frame can hold
Get(x, k) == IF x.t = "object" /\ k \in DOMAIN x.v THEN x.v[k] ELSE JUndef

\* x?.k
OptGet(x, k) == IF Nullish(x) THEN JUndef ELSE Get(x, k)

\* a ?? b
Coalesce(a, b) == IF Nullish(a) THEN b ELSE a

IsArray(x) == x.t = "array"

isFiniteNum(x) == x.t = "number" /\ x.fin

Min(a, b) == IF a <= b THEN a ELSE b
Max(a, b) == IF a >= b THEN a ELSE b

RECURSIVE Pow2(_)
Pow2(n) == IF n = 0 THEN 1 ELSE 2 * Pow2(n - 1)

\* Array.prototype.slice(start) for a start that may be negative
Slice(s, start) ==
    LET from == IF start < 0 THEN Max(Len(s) + start, 0) ELSE Min(start, Len(s))
    IN  SubSeq(s, from + 1, Len(s))

\* The numbers of flow events and the two thresholds are fixed-point: an
\* integer counts hundredths, Fx(n) is the whole number n.
Fx(n) == n * 100

\* Math.round in fixed point: the nearest whole number, a tie goes up
MathRound(x) == ((x + 50) \div 100) * 100

-----------------------------------------------------------------------------
(* Strings as character sequences *)

Lower == <<"a", "b", "c", "d", "e", "f", "g", "h", "i", "j", "k", "l", "m",
           "n", "o", "p", "q", "r", "s", "t", "u", "v", "w", "x", "y", "z">>
Upper == <<"A", "B", "C", "D", "E", "F", "G", "H", "I", "J", "K", "L", "M",
           "N", "O", "P", "Q", "R", "S", "T", "U", "V", "W", "X", "Y", "Z">>
Digits == {"0", "1", "2", "3", "4", "5", "6", "7", "8", "9"}
Range(f) == {f[i] : i \in DOMAIN f}

UpperChar(c) ==
    IF c \in Range(Lower)
    THEN Upper[CHOOSE i \in DOMAIN Lower : Lower[i] = c]
    ELSE c

toUpperCase(s) == [i \in 1..Len(s) |-> UpperChar(s[i])]

\* s.replace(/^\//, "")
StripLeadingSlash(s) == IF Len(s) > 0 /\ s[1] = "/" THEN Tail(s) ELSE s

normalizeSymbol(s) == StripLeadingSlash(toUpperCase(s))

-----------------------------------------------------------------------------
(* parseSymbolsList and normalizeWatchlist, lines 104-120 *)

\* the characters of \s that occur in the frames, and the other separators
WhiteSpace == {" ", "\t", "\n"}
IsSep(c) == c \in WhiteSpace \cup {",", ";", "|"}

\* s.split(/[\s,;|]+/): a run of separators ends one piece; a leading or a
\* trailing run gives an empty first or last piece
RECURSIVE SplitFrom(_, _, _, _)
SplitFrom(s, i, cur, inSep) ==
    IF i > Len(s) THEN <<cur>>
    ELSE IF IsSep(s[i])
         THEN IF inSep THEN SplitFrom(s, i + 1, cur, TRUE)
              ELSE <<cur>> \o SplitFrom(s, i + 1, <<>>, TRUE)
         ELSE SplitFrom(s, i + 1, Append(cur, s[i]), FALSE)

Split(s) == SplitFrom(s, 1, <<>>, FALSE)

RECURSIVE TrimStart(_)
TrimStart(s) ==
    IF Len(s) > 0 /\ s[1] \in WhiteSpace THEN TrimStart(Tail(s)) ELSE s

RECURSIVE TrimEnd(_)
TrimEnd(s) ==
    IF Len(s) > 0 /\ s[Len(s)] \in WhiteSpace
    THEN TrimEnd(SubSeq(s, 1, Len(s) - 1))
    ELSE s

trim(s) == TrimEnd(TrimStart(s))

TickerFirst == Range(Upper) \cup Digits
TickerRest == TickerFirst \cup {".", "-", "_", "/"}

\* a pattern without the class of the first character: /^[A-Z0-9.\-_/]{1,10}$/
TickerOkAnyFirst(s) ==
    /\ Len(s) >= 1
    /\ Len(s) <= 10
    /\ \A i \in 1..Len(s) : s[i] \in TickerRest

\* TICKER_OK = /^[A-Z0-9][A-Z0-9.\-_/]{0,9}$/
TICKER_OK(s) ==
    /\ Len(s) >= 1
    /\ Len(s) <= 10
    /\ s[1] \in TickerFirst
    /\ \A i \in 2..Len(s) : s[i] \in TickerRest

\* Array.from(new Set(arr)): first occurrences, in order
RECURSIVE uniq(_)
uniq(arr) ==
    IF arr = <<>> THEN <<>>
    ELSE LET init == uniq(SubSeq(arr, 1, Len(arr) - 1))
             x == arr[Len(arr)]
         IN  IF x \in Range(init) THEN init ELSE Append(init, x)

\* String(x) for the elements a watchlist payload carries
ToStringChars(x) ==
    CASE x.t = "string" -> x.chars
      [] x.t = "null" -> <<"n", "u", "l", "l">>
      [] OTHER -> <<"[", "o", "b", "j", "e", "c", "t", " ",
                    "O", "b", "j", "e", "c", "t", "]">>

\* a parser that keeps duplicates
parseSymbolsListKeepsAll(v) ==
    LET arr == IF IsArray(v) THEN [i \in 1..Len(v.v) |-> ToStringChars(v.v[i])]
               ELSE IF v.t = "string" THEN Split(v.chars)
               ELSE <<>>
        cleaned == [i \in 1..Len(arr) |-> toUpperCase(trim(arr[i]))]
    IN  SelectSeq(cleaned, TICKER_OK)

parseSymbolsList(v) ==
    LET arr == IF IsArray(v) THEN [i \in 1..Len(v.v) |-> ToStringChars(v.v[i])]
               ELSE IF v.t = "string" THEN Split(v.chars)
               ELSE <<>>
        cleaned == [i \in 1..Len(arr) |-> toUpperCase(trim(arr[i]))]
    IN  uniq(SelectSeq(cleaned, TICKER_OK))

normalizeWatchlist(raw) ==
    [equities |-> parseSymbolsList(OptGet(raw, "equities")),
     options |-> IF IsArray(OptGet(raw, "options")) THEN OptGet(raw, "options").v
                 ELSE <<>>]

-----------------------------------------------------------------------------
(* fmtIvPct, lines 27-34 *)

\* An implied volatility is a number counted in thousandths.
JMilli(m) == [t |-> "number", fin |-> TRUE, milli |-> m]

\* Number(iv): null is 0; undefined and a string that is not a numeral are
\* NaN; NaN and the infinities are not finite
ToNumber(iv) ==
    CASE iv.t = "number" -> iv
      [] iv.t = "null" -> JMilli(0)
      [] OTHER -> [t |-> "number", fin |-> FALSE]

\* the decimal numeral of a natural number
RECURSIVE NumeralOf(_)
NumeralOf(k) ==
    LET digit == <<"0", "1", "2", "3", "4", "5", "6", "7", "8", "9">>
    IN  IF k < 10 THEN <<digit[k + 1]>>
        ELSE Append(NumeralOf(k \div 10), digit[(k % 10) + 1])

\* `${k}%`
PercentText(k) == Append(NumeralOf(k), "%")

\* the em dash U+2014
Dash == <<"EM DASH">>

\* a formatter without the cap at 300
fmtIvPctUncapped(iv) ==
    LET n == ToNumber(iv)
    IN  IF ~n.fin \/ n.milli <= 0 THEN Dash
        ELSE LET pctRaw == IF n.milli > 1500 THEN n.milli ELSE n.milli * 100
             IN  PercentText((pctRaw + 500) \div 1000)

fmtIvPct(iv) ==
    LET n == ToNumber(iv)
    IN  IF ~n.fin \/ n.milli <= 0 THEN Dash
        ELSE LET pctRaw == IF n.milli > 1500 THEN n.milli ELSE n.milli * 100
                 pct == Min(pctRaw, 300 * 1000)
             IN  PercentText((pct + 500) \div 1000)

-----------------------------------------------------------------------------
(* notionalOf, lines 101-102 *)

\* m.k || 0 for a numeric field that may be missing
OrZero(m, k) == IF k \in DOMAIN m THEN m[k] ELSE 0

\* Math.round(m.notional ?? ((m.qty || 0) * (m.price || 0) * 100)); for a
\* qty of q hundredths and a price of p hundredths, qty * price * 100 is
\* (q / 100) * (p / 100) * 100, that is q * p hundredths
notionalOf(m) ==
    MathRound(IF "notional" \in DOMAIN m THEN m.notional
              ELSE OrZero(m, "qty") * OrZero(m, "price"))

-----------------------------------------------------------------------------
(* ws.onmessage, lines 186-249 *)

\* A frame is the text of ev.data: one that JSON.parse rejects (with the
\* message of the SyntaxError it throws) or one that it decodes to a value.
BadFrame(m) == [json |-> FALSE, message |-> m]
Frame(v) == [json |-> TRUE, value |-> v]

JsonParse(data) ==
    IF data.json THEN [threw |-> FALSE, value |-> data.value]
    ELSE [threw |-> TRUE, message |-> data.message]

Envelope(topic, data) == Frame(JObj([topic |-> JStr(topic), data |-> data]))

\* the value the switch at line 190 compares with the case labels
TopicOf(msg) ==
    LET tp == Get(msg, "topic")
    IN  IF tp.t = "string" /\ "v" \in DOMAIN tp THEN tp.v ELSE "(none)"

\* a merge under the raw symbol: next[t.symbol] = t
RECURSIVE MergeTicksRawKey(_, _)
MergeTicksRawKey(prev, arr) ==
    IF arr = <<>> THEN prev
    ELSE LET t == Head(arr)
             next == [k \in DOMAIN prev \cup {t.symbol} |->
                          IF k = t.symbol THEN t ELSE prev[k]]
         IN  MergeTicksRawKey(next, Tail(arr))

\* next[sym] = { ...t, symbol: sym }, lines 210-213
RECURSIVE MergeTicks(_, _)
MergeTicks(prev, arr) ==
    IF arr = <<>> THEN prev
    ELSE LET t == Head(arr)
             sym == normalizeSymbol(t.symbol)
             entry == [k \in DOMAIN t \cup {"symbol"} |->
                          IF k = "symbol" THEN sym ELSE t[k]]
             next == [k \in DOMAIN prev \cup {sym} |->
                          IF k = sym THEN entry ELSE prev[k]]
         IN  MergeTicks(next, Tail(arr))

\* a case "equity_ts" that leaves basis alone when the payload has none
OnEquityTsKeepsBasis(st, payload) ==
    LET arr == IF IsArray(payload) THEN payload.v
               ELSE IF IsArray(OptGet(payload, "rows")) THEN OptGet(payload, "rows").v
               ELSE <<>>
        maybeBasis == IF IsArray(payload) THEN JNull
                      ELSE Coalesce(OptGet(payload, "es_spx_basis"), JNull)
        st1 == [st EXCEPT !.basis = IF isFiniteNum(maybeBasis) THEN maybeBasis
                                    ELSE st.basis]
    IN  IF Len(arr) = 0 THEN st1
        ELSE [st1 EXCEPT !.equity = MergeTicks(st.equity, arr)]

\* case "equity_ts", lines 191-217
OnEquityTs(st, payload) ==
    LET arr == IF IsArray(payload) THEN payload.v
               ELSE IF IsArray(OptGet(payload, "rows")) THEN OptGet(payload, "rows").v
               ELSE <<>>
        maybeBasis == IF IsArray(payload) THEN JNull
                      ELSE Coalesce(OptGet(payload, "es_spx_basis"), JNull)
        st1 == [st EXCEPT !.basis = IF isFiniteNum(maybeBasis) THEN maybeBasis
                                    ELSE JNull]
    IN  IF Len(arr) = 0 THEN st1
        ELSE [st1 EXCEPT !.equity = MergeTicks(st.equity, arr)]

\* case "basis", lines 218-222
OnBasis(st, payload) ==
    LET src == IF Falsy(payload) THEN JObj(<<>>) ELSE payload
        es_spx_basis == Get(src, "es_spx_basis")
    IN  [st EXCEPT !.basis = Coalesce(es_spx_basis, JNull)]

\* an append that skips the events the buffer already holds
AppendFlowSkipsKnown(prev, data) ==
    Slice(prev, -400) \o SelectSeq(data, LAMBDA e : e \notin Range(prev))

\* a hard cap: truncation after the append
AppendFlowHardCap(prev, data) == Slice(prev \o data, -400)

\* case "sweeps" and case "blocks", lines 228-236
AppendFlow(prev, data) == Slice(prev, -400) \o data

\* a switch whose case "sweeps" lacks its break and runs into case "blocks"
DispatchFallthrough(st, msg) ==
    LET topic == TopicOf(msg)
        data == Get(msg, "data")
    IN  CASE topic = "equity_ts" -> OnEquityTs(st, data)
          [] topic = "basis" -> OnBasis(st, data)
          [] topic = "options_ts" -> [st EXCEPT !.options = data.v]
          [] topic = "sweeps" -> [st EXCEPT !.sweeps = AppendFlow(st.sweeps, data.v),
                                            !.blocks = AppendFlow(st.blocks, data.v)]
          [] topic = "blocks" -> [st EXCEPT !.blocks = AppendFlow(st.blocks, data.v)]
          [] topic = "watchlist" -> [st EXCEPT !.wl = normalizeWatchlist(data)]
          [] OTHER -> st

\* a switch whose default reports the topic as an error
DispatchDefaultReports(st, msg) ==
    LET topic == TopicOf(msg)
        data == Get(msg, "data")
    IN  CASE topic = "equity_ts" -> OnEquityTs(st, data)
          [] topic = "basis" -> OnBasis(st, data)
          [] topic = "options_ts" -> [st EXCEPT !.options = data.v]
          [] topic = "sweeps" -> [st EXCEPT !.sweeps = AppendFlow(st.sweeps, data.v)]
          [] topic = "blocks" -> [st EXCEPT !.blocks = AppendFlow(st.blocks, data.v)]
          [] topic = "watchlist" -> [st EXCEPT !.wl = normalizeWatchlist(data)]
          [] OTHER -> [st EXCEPT !.err = JStr("unknown topic")]

\* a dispatcher that adds a watchlist frame's tickers to the previous ones
DispatchWatchlistMerged(st, msg) ==
    LET topic == TopicOf(msg)
        data == Get(msg, "data")
    IN  CASE topic = "equity_ts" -> OnEquityTs(st, data)
          [] topic = "basis" -> OnBasis(st, data)
          [] topic = "options_ts" -> [st EXCEPT !.options = data.v]
          [] topic = "sweeps" -> [st EXCEPT !.sweeps = AppendFlow(st.sweeps, data.v)]
          [] topic = "blocks" -> [st EXCEPT !.blocks = AppendFlow(st.blocks, data.v)]
          [] topic = "watchlist" ->
               [st EXCEPT !.wl =
                   [equities |-> uniq(st.wl.equities
                                        \o normalizeWatchlist(data).equities),
                    options |-> normalizeWatchlist(data).options]]
          [] OTHER -> st

\* a dispatcher that appends an option snapshot to the previous one
DispatchOptionsMerged(st, msg) ==
    LET topic == TopicOf(msg)
        data == Get(msg, "data")
    IN  CASE topic = "equity_ts" -> OnEquityTs(st, data)
          [] topic = "basis" -> OnBasis(st, data)
          [] topic = "options_ts" -> [st EXCEPT !.options = st.options \o data.v]
          [] topic = "sweeps" -> [st EXCEPT !.sweeps = AppendFlow(st.sweeps, data.v)]
          [] topic = "blocks" -> [st EXCEPT !.blocks = AppendFlow(st.blocks, data.v)]
          [] topic = "watchlist" -> [st EXCEPT !.wl = normalizeWatchlist(data)]
          [] OTHER -> st

\* the switch, lines 190-245, for a decoded msg that is not null
Dispatch(st, msg) ==
    LET topic == TopicOf(msg)
        data == Get(msg, "data")
    IN  CASE topic = "equity_ts" -> OnEquityTs(st, data)
          [] topic = "basis" -> OnBasis(st, data)
          [] topic = "options_ts" -> [st EXCEPT !.options = data.v]
          [] topic = "sweeps" -> [st EXCEPT !.sweeps = AppendFlow(st.sweeps, data.v)]
          [] topic = "blocks" -> [st EXCEPT !.blocks = AppendFlow(st.blocks, data.v)]
          [] topic = "watchlist" -> [st EXCEPT !.wl = normalizeWatchlist(data)]
          [] OTHER -> st

NullTopicError == "Cannot read properties of null (reading 'topic')"

\* a handler whose catch block is empty
OnMessageSilentCatch(st, data) ==
    LET parsed == JsonParse(data)
    IN  IF parsed.threw \/ parsed.value.t = "null" THEN st
        ELSE Dispatch(st, parsed.value)

\* the whole handler: try { ... } catch (e) { setErr(String(e?.message ?? e)) }
OnMessage(st, data) ==
    LET parsed == JsonParse(data)
    IN  IF parsed.threw THEN [st EXCEPT !.err = JStr(parsed.message)]
        ELSE IF parsed.value.t = "null" THEN [st EXCEPT !.err = JStr(NullTopicError)]
        ELSE Dispatch(st, parsed.value)

\* the React state the handler reads and writes
St == [equity |-> equity, options |-> options, sweeps |-> sweeps,
       blocks |-> blocks, wl |-> wl, err |-> err, basis |-> basis]

-----------------------------------------------------------------------------
(* The WebSocket objects the effect creates.  readyState follows the       *)
(* WebSocket interface: open is fired once, from CONNECTING; message is    *)
(* fired only while readyState is OPEN; close() moves a CONNECTING or OPEN *)
(* socket to CLOSING; error, when the connection fails, precedes close;    *)
(* close is fired once and is the last event of a socket.                  *)
(* established: the connection to the server exists, frames can arrive;    *)
(* canError: no error event has been fired and one still can be;           *)
(* closed: the close event has been fired.                                 *)

NewSocket == [readyState |-> "CONNECTING", established |-> FALSE,
              canError |-> TRUE, closed |-> FALSE]

ClosedSocket == [readyState |-> "CLOSED", established |-> FALSE,
                 canError |-> FALSE, closed |-> TRUE]

\* WebSocket.prototype.close()
CloseMethod(ws) ==
    IF ws.readyState \in {"CONNECTING", "OPEN"}
    THEN [ws EXCEPT !.readyState = "CLOSING"]
    ELSE ws

RemoveAt(s, j) == SubSeq(s, 1, j - 1) \o SubSeq(s, j + 1, Len(s))

reactStore == <<equity, options, sweeps, blocks, wl, err, basis>>
filters == <<minNotional, minQty>>

Init ==
    /\ minNotional = 0
    /\ minQty = Fx(1)
    /\ wsState = "idle"
    /\ equity = <<>>
    /\ options = <<>>
    /\ sweeps = <<>>
    /\ blocks = <<>>
    /\ wl = [equities |-> <<>>, options |-> <<>>]
    /\ err = JUndef
    /\ basis = JNull
    /\ wsRef = 0
    /\ started = FALSE
    /\ stopped = FALSE
    /\ retry = 0
    /\ sockets = <<>>
    /\ timers = <<>>
    /\ lastEv = [kind |-> "init"]
    /\ history = <<>>
    /\ nflow = 0

\* connect without the test of stopped
connectUnguarded ==
    /\ wsState' = "connecting"
    /\ sockets' = Append(sockets, NewSocket)
    /\ wsRef' = Len(sockets) + 1

\* connect, lines 167-171 (the handlers it installs are the Ws actions)
connect ==
    IF stopped
    THEN UNCHANGED <<wsState, sockets, wsRef>>
    ELSE /\ wsState' = "connecting"
         /\ sockets' = Append(sockets, NewSocket)
         /\ wsRef' = Len(sockets) + 1

\* the effect body, lines 163-166 and 252
Start ==
    /\ ~started
    /\ started' = TRUE
    /\ connect
    /\ lastEv' = [kind |-> "start"]
    /\ UNCHANGED <<stopped, retry, timers, history, nflow, reactStore, filters>>

\* a timer set at line 181 fires and calls connect
TimerFire(j) ==
    /\ j \in DOMAIN timers
    /\ stopped \/ Len(sockets) < MaxSockets
    /\ timers' = RemoveAt(timers, j)
    /\ connect
    /\ lastEv' = [kind |-> "timer"]
    /\ UNCHANGED <<started, stopped, retry, history, nflow, reactStore, filters>>

\* an onopen that starts the session afresh: basis back to null
WsOpenResetsBasis(i) ==
    /\ i \in DOMAIN sockets
    /\ sockets[i].readyState = "CONNECTING"
    /\ sockets' = [sockets EXCEPT ![i].readyState = "OPEN",
                                  ![i].established = TRUE]
    /\ wsState' = "open"
    /\ retry' = 0
    /\ history' = Append(history, [ev |-> "open"])
    /\ lastEv' = [kind |-> "open", sock |-> i]
    /\ basis' = JNull
    /\ UNCHANGED <<wsRef, started, stopped, timers, nflow, filters,
                   equity, options, sweeps, blocks, wl, err>>

\* an onopen that clears the last error
WsOpenClearsErr(i) ==
    /\ i \in DOMAIN sockets
    /\ sockets[i].readyState = "CONNECTING"
    /\ sockets' = [sockets EXCEPT ![i].readyState = "OPEN",
                                  ![i].established = TRUE]
    /\ wsState' = "open"
    /\ retry' = 0
    /\ history' = Append(history, [ev |-> "open"])
    /\ lastEv' = [kind |-> "open", sock |-> i]
    /\ err' = JUndef
    /\ UNCHANGED <<wsRef, started, stopped, timers, nflow, filters,
                   equity, options, sweeps, blocks, wl, basis>>

\* an onopen that resets the retry counter and leaves the status alone
WsOpenKeepsStatus(i) ==
    /\ i \in DOMAIN sockets
    /\ sockets[i].readyState = "CONNECTING"
    /\ sockets' = [sockets EXCEPT ![i].readyState = "OPEN",
                                  ![i].established = TRUE]
    /\ retry' = 0
    /\ history' = Append(history, [ev |-> "open"])
    /\ lastEv' = [kind |-> "open", sock |-> i]
    /\ UNCHANGED <<wsState, wsRef, started, stopped, timers, nflow,
                   reactStore, filters>>

\* ws.onopen, lines 173-176
WsOpen(i) ==
    /\ i \in DOMAIN sockets
    /\ sockets[i].readyState = "CONNECTING"
    /\ sockets' = [sockets EXCEPT ![i].readyState = "OPEN",
                                  ![i].established = TRUE]
    /\ wsState' = "open"
    /\ retry' = 0
    /\ history' = Append(history, [ev |-> "open"])
    /\ lastEv' = [kind |-> "open", sock |-> i]
    /\ UNCHANGED <<wsRef, started, stopped, timers, nflow, reactStore, filters>>

\* the backoff without its cap
BackoffUncapped(n) == 1000 * Pow2(n)

\* Math.min(1000 * Math.pow(2, retry), 10000), line 180
Backoff(n) == Min(1000 * Pow2(n), 10000)

\* an onclose that sets the status and schedules nothing
WsCloseNoReconnect(i) ==
    /\ i \in DOMAIN sockets
    /\ ~sockets[i].closed
    /\ sockets' = [sockets EXCEPT ![i] = ClosedSocket]
    /\ wsState' = "closed"
    /\ lastEv' = [kind |-> "close", sock |-> i,
                  afterError |-> ~sockets[i].canError]
    /\ UNCHANGED <<wsRef, started, stopped, retry, timers, history, nflow,
                   reactStore, filters>>

\* ws.onclose, lines 177-183
WsClose(i) ==
    /\ i \in DOMAIN sockets
    /\ ~sockets[i].closed
    /\ sockets' = [sockets EXCEPT ![i] = ClosedSocket]
    /\ wsState' = "closed"
    /\ IF ~stopped
       THEN /\ timers' = Append(timers, Backoff(retry))
            /\ retry' = retry + 1
            /\ history' = Append(history,
                   [ev |-> "close", delay |-> Backoff(retry),
                    from |-> IF sockets[i].established THEN "open"
                            ELSE "connecting"])
       ELSE UNCHANGED <<timers, retry, history>>
    /\ lastEv' = [kind |-> "close", sock |-> i,
                  afterError |-> ~sockets[i].canError]
    /\ UNCHANGED <<wsRef, started, stopped, nflow, reactStore, filters>>

\* an onerror that schedules a reconnection of its own
WsErrorReconnects(i) ==
    /\ i \in DOMAIN sockets
    /\ ~sockets[i].closed
    /\ sockets[i].canError
    /\ sockets' = [sockets EXCEPT ![i].readyState = "CLOSED",
                                  ![i].canError = FALSE]
    /\ wsState' = "error"
    /\ timers' = IF stopped THEN timers ELSE Append(timers, Backoff(retry))
    /\ lastEv' = [kind |-> "error", sock |-> i]
    /\ UNCHANGED <<wsRef, started, stopped, retry, history, nflow,
                   reactStore, filters>>

\* an onerror that also counts the attempt
WsErrorAdvancesRetry(i) ==
    /\ i \in DOMAIN sockets
    /\ ~sockets[i].closed
    /\ sockets[i].canError
    /\ sockets' = [sockets EXCEPT ![i].readyState = "CLOSED",
                                  ![i].canError = FALSE]
    /\ wsState' = "error"
    /\ retry' = retry + 1
    /\ lastEv' = [kind |-> "error", sock |-> i]
    /\ UNCHANGED <<wsRef, started, stopped, timers, history, nflow,
                   reactStore, filters>>

\* ws.onerror, line 184
WsError(i) ==
    /\ i \in DOMAIN sockets
    /\ ~sockets[i].closed
    /\ sockets[i].canError
    /\ sockets' = [sockets EXCEPT ![i].readyState = "CLOSED",
                                  ![i].canError = FALSE]
    /\ wsState' = "error"
    /\ lastEv' = [kind |-> "error", sock |-> i]
    /\ UNCHANGED <<wsRef, started, stopped, retry, timers, history, nflow,
                   reactStore, filters>>

\* ws.onerror called right after the close event of the same socket, for a
\* platform that reports a failure as close and then error
WsErrorAfterClose(i) ==
    /\ i \in DOMAIN sockets
    /\ lastEv = [kind |-> "close", sock |-> i, afterError |-> FALSE]
    /\ wsState' = "error"
    /\ lastEv' = [kind |-> "error", sock |-> i]
    /\ UNCHANGED <<wsRef, started, stopped, retry, sockets, timers, history,
                   nflow, reactStore, filters>>

IsFlow(f) == f.json /\ TopicOf(f.value) \in {"sweeps", "blocks"}

\* ws.onmessage, lines 186-249, on a frame f
WsMessage(i, f) ==
    /\ i \in DOMAIN sockets
    /\ sockets[i].readyState = "OPEN"
    /\ IsFlow(f) => nflow < MaxFlowFrames
    /\ nflow' = IF IsFlow(f) THEN nflow + 1 ELSE nflow
    /\ \E next \in {OnMessage(St, f)} :
           /\ equity' = next.equity
           /\ options' = next.options
           /\ sweeps' = next.sweeps
           /\ blocks' = next.blocks
           /\ wl' = next.wl
           /\ err' = next.err
           /\ basis' = next.basis
    /\ lastEv' = [kind |-> "message", sock |-> i, frame |-> f]
    /\ UNCHANGED <<wsState, wsRef, started, stopped, retry, sockets, timers,
                   history, filters>>

\* a frame reaches a socket on which close() was called: readyState is not
\* OPEN, no message event is fired and no handler runs
WsLateFrame(i, f) ==
    /\ i \in DOMAIN sockets
    /\ sockets[i].readyState = "CLOSING"
    /\ sockets[i].established
    /\ lastEv' = [kind |-> "late", sock |-> i, frame |-> f]
    /\ UNCHANGED <<wsState, wsRef, started, stopped, retry, sockets, timers,
                   history, nflow, reactStore, filters>>

\* a cleanup that sets the flag and leaves the socket open
StopWithoutClose ==
    /\ started
    /\ ~stopped
    /\ stopped' = TRUE
    /\ lastEv' = [kind |-> "stop"]
    /\ UNCHANGED <<wsState, wsRef, started, retry, sockets, timers, history,
                   nflow, reactStore, filters>>

\* the effect cleanup, lines 253-256
Stop ==
    /\ started
    /\ ~stopped
    /\ stopped' = TRUE
    /\ sockets' = IF wsRef = 0 THEN sockets
                  ELSE [sockets EXCEPT ![wsRef] = CloseMethod(sockets[wsRef])]
    /\ lastEv' = [kind |-> "stop"]
    /\ UNCHANGED <<wsState, wsRef, started, retry, timers, history, nflow,
                   reactStore, filters>>

\* onChange of the "Min notional" input, line 482
SetMinNotional(v) ==
    /\ started
    /\ minNotional' = Max(0, v)
    /\ lastEv' = [kind |-> "filter"]
    /\ UNCHANGED <<minQty, wsState, wsRef, started, stopped, retry, sockets,
                   timers, history, nflow, reactStore>>

\* onChange of the "Min contracts" input, line 493
SetMinQty(v) ==
    /\ started
    /\ minQty' = Max(0, v)
    /\ lastEv' = [kind |-> "filter"]
    /\ UNCHANGED <<minNotional, wsState, wsRef, started, stopped, retry,
                   sockets, timers, history, nflow, reactStore>>

\* a Reset that sets the notional threshold only
ResetNotionalOnly ==
    /\ started
    /\ minNotional' = Fx(20000)
    /\ lastEv' = [kind |-> "reset"]
    /\ UNCHANGED <<minQty, wsState, wsRef, started, stopped, retry, sockets,
                   timers, history, nflow, reactStore>>

\* onClick of the Reset button, lines 500-503
Reset ==
    /\ started
    /\ minNotional' = Fx(20000)
    /\ minQty' = Fx(50)
    /\ lastEv' = [kind |-> "reset"]
    /\ UNCHANGED <<wsState, wsRef, started, stopped, retry, sockets, timers,
                   history, nflow, reactStore>>

-----------------------------------------------------------------------------
(* Derived views, lines 279-287 *)

\* a filter that keeps an event when either threshold is met
filteredBlocksEither ==
    SelectSeq(blocks, LAMBDA m : \/ notionalOf(m) >= minNotional
                                 \/ OrZero(m, "qty") >= minQty)

\* r.iv of a row of the equity table, undefined when the tick has none
IvOf(r) == IF "iv" \in DOMAIN r THEN r.iv ELSE JUndef

\* the IV cells of the equity table, marketFmt.iv(r.iv) at line 374
ivCells == [c \in DOMAIN equity |-> fmtIvPct(IvOf(equity[c]))]

\* `${r.underlying}:${r.expiration}`, line 268
KeyOf(r) == r.underlying \o ":" \o r.expiration

\* rows.sort((a, b) => a.strike - b.strike): ascending, rows of equal strike
\* keep their order
RECURSIVE SortByStrike(_)
SortByStrike(rows) ==
    IF rows = <<>> THEN <<>>
    ELSE LET init == SortByStrike(SubSeq(rows, 1, Len(rows) - 1))
             x == rows[Len(rows)]
             n == Cardinality({i \in 1..Len(init) : init[i].strike <= x.strike})
         IN  SubSeq(init, 1, n) \o <<x>> \o SubSeq(init, n + 1, Len(init))

\* optGrouped, lines 265-277: the Map keeps its keys in insertion order and
\* under each key the rows in arrival order, sorted at the end
optGrouped ==
    LET keys == uniq([i \in 1..Len(options) |-> KeyOf(options[i])])
    IN  [g \in 1..Len(keys) |->
            [key |-> keys[g],
             rows |-> SortByStrike(SelectSeq(options,
                          LAMBDA r : KeyOf(r) = keys[g]))]]

\* a.localeCompare(b) < 0 for symbols in upper case: character by character
\* in the order of the collation, punctuation before digits before letters; a
\* proper prefix comes first
CollationOrder ==
    <<"_", "-", ".", "/", "0", "1", "2", "3", "4", "5", "6", "7", "8", "9">>
        \o Upper
CollationRank(c) == CHOOSE i \in DOMAIN CollationOrder : CollationOrder[i] = c
LocaleBefore(a, b) ==
    \E k \in 1..(Len(b)) :
        /\ k <= Len(a) + 1
        /\ \A j \in 1..(k - 1) : a[j] = b[j]
        /\ k = Len(a) + 1 \/ CollationRank(a[k]) < CollationRank(b[k])

\* arr.sort((a, b) => a.symbol.localeCompare(b.symbol))
RECURSIVE SortBySymbol(_)
SortBySymbol(rows) ==
    IF rows = <<>> THEN <<>>
    ELSE LET init == SortBySymbol(SubSeq(rows, 1, Len(rows) - 1))
             x == rows[Len(rows)]
             n == Cardinality({i \in 1..Len(init) :
                                  ~LocaleBefore(x.symbol, init[i].symbol)})
         IN  SubSeq(init, 1, n) \o <<x>> \o SubSeq(init, n + 1, Len(init))

\* the keys of an object in one order
RECURSIVE KeysOf(_)
KeysOf(S) ==
    IF S = {} THEN <<>>
    ELSE LET k == CHOOSE k \in S : TRUE
         IN  <<k>> \o KeysOf(S \ {k})

\* Object.values(equity): a new array of the entries, in the order of the
\* keys (the map of the model keeps no key order; KeysOf gives one)
ValuesOf(keys) == [i \in 1..Len(keys) |-> equity[keys[i]]]

\* a list that is not sorted
equityRowsUnsorted == ValuesOf(KeysOf(DOMAIN equity))

\* equityRows, lines 260-263
equityRows == SortBySymbol(ValuesOf(KeysOf(DOMAIN equity)))

filteredSweeps ==
    SelectSeq(sweeps, LAMBDA m : /\ notionalOf(m) >= minNotional
                                 /\ OrZero(m, "qty") >= minQty)

filteredBlocks ==
    SelectSeq(blocks, LAMBDA m : /\ notionalOf(m) >= minNotional
                                 /\ OrZero(m, "qty") >= minQty)

\* Array.prototype.reverse
Reverse(q) == [i \in 1..Len(q) |-> q[Len(q) - i + 1]]

\* a list that takes the last 200 buffered events and filters those
displayedSweepsSliceFirst ==
    Reverse(SelectSeq(Slice(sweeps, -200),
                      LAMBDA m : /\ notionalOf(m) >= minNotional
                                 /\ OrZero(m, "qty") >= minQty))

\* filteredSweeps.slice(-200).reverse(), line 533
displayedSweeps == Reverse(Slice(filteredSweeps, -200))

\* filteredBlocks.slice(-200).reverse(), line 573
displayedBlocks == Reverse(Slice(filteredBlocks, -200))

\* the four useMemo values of a render
Views == [equityRows |-> equityRows, optGrouped |-> optGrouped,
          filteredSweeps |-> filteredSweeps, filteredBlocks |-> filteredBlocks]

\* a render whose grouping sorts the option list itself: options.sort(...)
RenderSortsInPlace ==
    /\ started
    /\ options' = SortByStrike(options)
    /\ lastEv' = [kind |-> "render", views |-> Views]
    /\ UNCHANGED <<wsState, wsRef, started, stopped, retry, sockets, timers,
                   history, nflow, equity, sweeps, blocks, wl, err, basis,
                   filters>>

\* a render, lines 259-287: Object.values, the Map's arrays, filter give new
\* arrays; sort is called on those, never on the state
Render ==
    /\ started
    /\ lastEv' = [kind |-> "render", views |-> Views]
    /\ UNCHANGED <<wsState, wsRef, started, stopped, retry, sockets, timers,
                   history, nflow, reactStore, filters>>

-----------------------------------------------------------------------------
(* Frames *)

sES == <<"E", "S">>
sSlashES == <<"/", "E", "S">>
sLowerEs == <<"e", "s">>
sSPX == <<"S", "P", "X">>
sNVDA == <<"N", "V", "D", "A">>

Sweep1 == [ul |-> "SPY", qty |-> Fx(10), price |-> Fx(5)]
Sweep2 == [ul |-> "QQQ", qty |-> Fx(1), price |-> Fx(1), notional |-> Fx(999)]
Row1 == [underlying |-> "AAPL", expiration |-> "2025-01-17", strike |-> 150]
Row2 == [underlying |-> "AAPL", expiration |-> "2025-01-17", strike |-> 140]
Row3 == [underlying |-> "AAPL", expiration |-> "2025-02-21", strike |-> 145]

\* equity_ts: a plain sequence, envelopes with and without rows and basis
EqSlashES == Envelope("equity_ts", JArr(<<[symbol |-> sSlashES, last |-> 4500]>>))
EqTwice ==
    Envelope("equity_ts",
             JObj([rows |-> JArr(<<[symbol |-> sES, last |-> 2, bid |-> 3],
                                  [symbol |-> sLowerEs, bid |-> 1]>>),
                   es_spx_basis |-> JNum(2)]))
EqTwo ==
    Envelope("equity_ts", JArr(<<[symbol |-> sSPX, last |-> 5],
                                [symbol |-> sES, last |-> 7]>>))
EqBadBasis == Envelope("equity_ts", JObj([es_spx_basis |-> JStr("abc")]))
EqInfBasis ==
    Envelope("equity_ts", JObj([rows |-> JArr(<<>>), es_spx_basis |-> JInf]))
EqNull == Envelope("equity_ts", JNull)
EqZeroBasis ==
    Envelope("equity_ts",
             JObj([rows |-> JArr(<<[symbol |-> sSPX, last |-> 5]>>),
                   es_spx_basis |-> JNum(0)]))
EquityFrames ==
    {EqSlashES, EqTwice, EqTwo, EqBadBasis, EqInfBasis, EqNull, EqZeroBasis}

\* basis: a number, null, a string, 1e999 (which JSON.parse reads as
\* Infinity), no payload, an empty payload
BasisNum == Envelope("basis", JObj([es_spx_basis |-> JNum(3)]))
BasisNull == Envelope("basis", JObj([es_spx_basis |-> JNull]))
BasisStr == Envelope("basis", JObj([es_spx_basis |-> JStr("abc")]))
BasisInf == Envelope("basis", JObj([es_spx_basis |-> JInf]))
BasisNoData == Frame(JObj([topic |-> JStr("basis")]))
BasisEmpty == Envelope("basis", JObj(<<>>))
BasisFrames == {BasisNum, BasisNull, BasisStr, BasisInf, BasisNoData, BasisEmpty}

OptionsFrames ==
    { Envelope("options_ts", JArr(<<Row1, Row2, Row3>>)),
      Envelope("options_ts", JArr(<<>>)) }

SmallFlowFrames ==
    { Envelope("sweeps", JArr(<<Sweep1>>)),
      Envelope("blocks", JArr(<<Sweep2, Sweep2>>)) }

WatchOpt == [underlying |-> "AAPL", expiration |-> "2025-01-17",
             strike |-> 150, right |-> "C"]
\* equities is a number and options a string
WatchMalformed ==
    Envelope("watchlist", JObj([equities |-> JNum(5), options |-> JStr("x")]))
WatchlistFrames ==
    { Envelope("watchlist",
               JObj([equities |-> JArr(<<JChars(<<"n", "v", "d", "a">>),
                                        JChars(sNVDA), JChars(<<"-", "a">>)>>),
                     options |-> JArr(<<WatchOpt>>)])),
      Envelope("watchlist", JObj([equities |-> JChars(<<"A", "B", ",", "C", "D">>)])),
      Envelope("watchlist", JNull),
      WatchMalformed }

\* frames that decode and carry none of the six topics
NoTopic == Frame(JObj(<<>>))
UnknownFrames ==
    { Envelope("heartbeat", JNum(1)),
      NoTopic,
      Frame(JNum(5)),
      Frame(JObj([topic |-> JNum(1), data |-> JArr(<<Sweep1>>)])),
      Frame(JArr(<<>>)) }

\* frames that cannot be decoded
NullFrame == Frame(JNull)
BadFrames == {BadFrame("Unexpected end of JSON input"), NullFrame}

\* sweeps and blocks batches of n events, cycling through three events
Sweep3 == [ul |-> "IWM", qty |-> Fx(60), price |-> Fx(4)]
FlowPool == <<Sweep1, Sweep2, Sweep3>>
Batch(n, off) == [i \in 1..n |-> FlowPool[((i + off) % 3) + 1]]
BatchSizes == {0, 1, 399, 401}
FlowFrames ==
    {Envelope(tp, JArr(Batch(n, off))) :
        tp \in {"sweeps", "blocks"}, n \in BatchSizes, off \in {0, 1}}

\* every shape of equity_ts and basis payload, and the undecodable frames
QuoteFrames == EquityFrames \cup BasisFrames \cup BadFrames

\* frames of every topic, of no topic, and undecodable ones
DispatchFrames ==
    {EqSlashES, EqTwice, BasisNum, BasisNull}
        \cup OptionsFrames \cup SmallFlowFrames \cup WatchlistFrames
        \cup UnknownFrames \cup BadFrames

ConnFrames ==
    { Envelope("basis", JObj([es_spx_basis |-> JNum(1)])),
      BadFrame("Unexpected end of JSON input"),
      NullFrame }

\* watchlist frames whose equities field is: every string of up to
\* MaxSymLen characters over a letter, a digit, a dash, a comma and a space;
\* the strings of SymbolExamples; sequences of two elements; values that are
\* neither a string nor a sequence
SymAlphabet == {"a", "1", "-", ",", " "}
StringsUpTo(n) == UNION {[1..k -> SymAlphabet] : k \in 0..n}
SymbolExamples ==
    { <<<<"N", "V", "D", "A">>, <<sNVDA>>>>,
      <<<<"A", "B", ",", "C", "D">>, <<<<"A", "B">>, <<"C", "D">>>>>>,
      <<<<"t", "o", "o", "l", "o", "n", "g", "s", "y", "m", "b", "o", "l", "n", "a", "m", "e">>, <<>>>>,
      <<<<"-", "a", "b", "c">>, <<>>>>,
      <<<<"1", "a", "b", "c">>, <<<<"1", "A", "B", "C">>>>>>,
      <<<<"A", "B", "C", "D", "E", "F", "G", "H", "I", "J">>, <<<<"A", "B", "C", "D", "E", "F", "G", "H", "I", "J">>>>>>,
      <<<<"A", "B", "C", "D", "E", "F", "G", "H", "I", "J", "K">>, <<>>>>,
      <<<<"a", ".", "b", "-", "c", "_", "d", "/", "e">>, <<<<"A", ".", "B", "-", "C", "_", "D", "/", "E">>>>>>,
      <<<<"A", "$">>, <<>>>>,
      <<<<" ", "\t", "x", ";", "y", "|", "z", "\n">>,
        <<<<"X">>, <<"Y">>, <<"Z">>>>>>,
      <<<<"/", "e", "s", " ", "e", "s", " ", "E", "S">>, <<sES>>>> }
\* ["/ES", "ES", "es"]
SlashAndPlain == JArr(<<JChars(sSlashES), JChars(sES), JChars(sLowerEs)>>)
SymbolInputs ==
    {JChars(cs) : cs \in StringsUpTo(MaxSymLen)}
        \cup {JChars(ex[1]) : ex \in SymbolExamples}
        \cup {JArr(<<a, b>>) :
                  a, b \in { JChars(<<"a">>), JChars(<<" ", "a", " ">>),
                             JChars(<<"a", ",", "1">>), JChars(<<"-">>),
                             JChars(<<>>), JNull }}
        \cup {JArr(<<>>), JNum(5), JNull, JUndef, JBool(TRUE), JObj(<<>>)}
        \cup {SlashAndPlain}
SymbolFrame(x) == Envelope("watchlist", JObj([equities |-> x]))
SymbolFrames == {SymbolFrame(x) : x \in SymbolInputs}

\* flow events: a notional of 999.50 beside qty and price, a price of 0.35,
\* a missing qty, a missing price, a negative notional
SweepHalf == [ul |-> "SPY", qty |-> Fx(60), price |-> Fx(4),
              notional |-> Fx(999) + 50]
SweepCents == [ul |-> "SPY", qty |-> Fx(3), price |-> 35]
SweepNoQty == [ul |-> "QQQ", price |-> Fx(5)]
SweepNoPrice == [ul |-> "QQQ", qty |-> Fx(100)]
SweepNegative == [ul |-> "QQQ", qty |-> Fx(2), price |-> Fx(1),
                  notional |-> 0 - Fx(5)]
ViewEvents == {Sweep1, Sweep2, Sweep3, SweepHalf, SweepCents, SweepNoQty,
               SweepNoPrice, SweepNegative}
ViewFrames ==
    {Envelope(tp, JArr(<<e>>)) : tp \in {"sweeps", "blocks"}, e \in ViewEvents}

\* the values typed into the two threshold inputs
NotionalInputs == {0 - Fx(5), Fx(105), Fx(1000), Fx(5000)}
QtyInputs == {0 - Fx(1), 50, Fx(3), Fx(60)}

\* option chains of up to MaxRows rows; the last two rows differ in
\* underlying and in expiration and have the same key SPX:W:2025-01-17
RowWeekly == [underlying |-> "SPX:W", expiration |-> "2025-01-17", strike |-> 10]
RowOdd == [underlying |-> "SPX", expiration |-> "W:2025-01-17", strike |-> 5]
ChainFrames ==
    {Envelope("options_ts", JArr(rows)) :
        rows \in UNION {[1..n -> {Row1, Row2, Row3, RowWeekly, RowOdd}] :
                            n \in 0..MaxRows}}

\* ticks of ES and SPX with an iv: fractions, percentages, values at and
\* around 1.5 and 300, zero, a negative, null, a string, 1e999, none
IvFrames ==
    {Envelope("equity_ts", JArr(<<[symbol |-> sym, iv |-> x]>>)) :
        sym \in {sES, sSPX},
        x \in {JMilli(m) : m \in {0 - 1000, 0, 4, 230, 235, 1400, 1500, 1501,
                                  45000, 299499, 299500, 300400, 300500,
                                  400000}}
                  \cup {JNull, JStr("abc"), [t |-> "number", fin |-> FALSE]}}
        \cup {Envelope("equity_ts", JArr(<<[symbol |-> sES, last |-> 7]>>))}

\* single ticks of five symbols (ES also as "/ES" and "es"), and two ticks
TickFrame(sym) == Envelope("equity_ts", JArr(<<[symbol |-> sym, last |-> 1]>>))
TickFrames ==
    {TickFrame(sym) :
        sym \in {sES, sSlashES, sLowerEs, sSPX, <<"A", "B">>,
                 <<"a", "_", "b">>, <<"1", "A">>}}
        \cup {EqTwo}

\* frames of every slice a view reads: ticks out of order, option rows out
\* of strike order, sweeps, blocks
RenderFrames ==
    { EqTwo,
      Envelope("options_ts", JArr(<<Row1, Row2, Row3>>)),
      Envelope("options_ts", JArr(<<Row3, Row2>>)),
      Envelope("sweeps", JArr(<<Sweep1, SweepNoQty>>)),
      Envelope("blocks", JArr(<<Sweep3, Sweep2>>)) }

Lifecycle ==
    \/ Start
    \/ Stop
    \/ \E j \in DOMAIN timers : TimerFire(j)
    \/ \E i \in DOMAIN sockets : WsOpen(i)
    \/ \E i \in DOMAIN sockets : WsError(i)
    \/ \E i \in DOMAIN sockets : WsClose(i)

\* the connection lifecycle with a few frames
Next ==
    \/ Lifecycle
    \/ \E i \in DOMAIN sockets, f \in ConnFrames : WsMessage(i, f)
    \/ \E i \in DOMAIN sockets, f \in ConnFrames : WsLateFrame(i, f)

Spec == Init /\ [][Next]_vars

\* the same, and a timer set by setTimeout fires after its delay: no
\* pending timer stays pending for ever
SpecLive ==
    Init /\ [][Next]_vars /\ WF_vars(\E j \in DOMAIN timers : TimerFire(j))

\* the connection lifecycle with the error event on either side of close
NextErrors ==
    \/ Lifecycle
    \/ \E i \in DOMAIN sockets : WsErrorAfterClose(i)

SpecErrors == Init /\ [][NextErrors]_vars

\* one open connection and the equity_ts and basis frames
NextQuotes ==
    \/ Start
    \/ \E i \in DOMAIN sockets : WsOpen(i)
    \/ \E i \in DOMAIN sockets, f \in QuoteFrames : WsMessage(i, f)

SpecQuotes == Init /\ [][NextQuotes]_vars

\* one open connection and frames of every topic
NextDispatch ==
    \/ Start
    \/ \E i \in DOMAIN sockets : WsOpen(i)
    \/ \E i \in DOMAIN sockets, f \in DispatchFrames : WsMessage(i, f)

SpecDispatch == Init /\ [][NextDispatch]_vars

\* one open connection and sweeps and blocks batches around the retention
NextFlow ==
    \/ Start
    \/ \E i \in DOMAIN sockets : WsOpen(i)
    \/ \E i \in DOMAIN sockets, f \in FlowFrames : WsMessage(i, f)

SpecFlow == Init /\ [][NextFlow]_vars

\* one open connection and watchlist frames over the symbol inputs
NextSymbols ==
    \/ Start
    \/ \E i \in DOMAIN sockets : WsOpen(i)
    \/ \E i \in DOMAIN sockets, f \in SymbolFrames : WsMessage(i, f)

SpecSymbols == Init /\ [][NextSymbols]_vars

\* one open connection, single-event sweeps and blocks frames, the filters
NextViews ==
    \/ Start
    \/ \E i \in DOMAIN sockets : WsOpen(i)
    \/ \E i \in DOMAIN sockets, f \in ViewFrames : WsMessage(i, f)
    \/ \E v \in NotionalInputs : SetMinNotional(v)
    \/ \E v \in QtyInputs : SetMinQty(v)
    \/ Reset

SpecViews == Init /\ [][NextViews]_vars

\* one open connection and option chain snapshots
NextChains ==
    \/ Start
    \/ \E i \in DOMAIN sockets : WsOpen(i)
    \/ \E i \in DOMAIN sockets, f \in ChainFrames : WsMessage(i, f)

SpecChains == Init /\ [][NextChains]_vars

\* one open connection and ticks that carry an implied volatility
NextIv ==
    \/ Start
    \/ \E i \in DOMAIN sockets : WsOpen(i)
    \/ \E i \in DOMAIN sockets, f \in IvFrames : WsMessage(i, f)

SpecIv == Init /\ [][NextIv]_vars

\* one open connection and ticks arriving in every order
NextTicks ==
    \/ Start
    \/ \E i \in DOMAIN sockets : WsOpen(i)
    \/ \E i \in DOMAIN sockets, f \in TickFrames : WsMessage(i, f)

SpecTicks == Init /\ [][NextTicks]_vars

\* one open connection, batches around the retention, the qty threshold
NextDisplay ==
    \/ Start
    \/ \E i \in DOMAIN sockets : WsOpen(i)
    \/ \E i \in DOMAIN sockets, f \in FlowFrames : WsMessage(i, f)
    \/ \E v \in {Fx(3)} : SetMinQty(v)
    \/ Reset

SpecDisplay == Init /\ [][NextDisplay]_vars

\* one open connection, frames of every slice, the Reset button, renders
NextRender ==
    \/ Start
    \/ \E i \in DOMAIN sockets : WsOpen(i)
    \/ \E i \in DOMAIN sockets, f \in RenderFrames : WsMessage(i, f)
    \/ Reset
    \/ Render

SpecRender == Init /\ [][NextRender]_vars

-----------------------------------------------------------------------------
(* Connection Manager *)

\* the number of reconnections scheduled since the last open before entry p
ConsecutiveCloses(p) ==
    LET opens == {q \in 1..(p - 1) : history[q].ev = "open"}
        lastOpen == IF opens = {} THEN 0
                    ELSE CHOOSE q \in opens : \A r \in opens : r <= q
    IN  p - 1 - lastOpen

DelaySequence == <<1000, 2000, 4000, 8000, 10000>>
ExpectedDelay(k) == IF k < 4 THEN DelaySequence[k + 1] ELSE 10000

\* C1: the delay scheduled at the k-th consecutive close with no open in
\* between is 1000, 2000, 4000, 8000, 10000, 10000, ..., from "open" as from
\* "connecting", and it is 1000 again at the first close after an open; the
\* pending timer carries the delay last scheduled.
C1_BackoffSequence ==
    /\ \A p \in DOMAIN history :
          history[p].ev = "close" =>
              history[p].delay = ExpectedDelay(ConsecutiveCloses(p))
    /\ \A j \in DOMAIN timers :
          /\ history # <<>>
          /\ history[Len(history)].ev = "close"
          /\ timers[j] = history[Len(history)].delay

\* six closes in a row while connecting (the sixth waits 10000 again), then an
\* open, then a close from "open" that waits 1000
C1_Witness ==
    /\ Len(history) = 8
    /\ \A p \in 1..6 : history[p].ev = "close" /\ history[p].from = "connecting"
    /\ history[5].delay = 10000
    /\ history[6].delay = 10000
    /\ history[7].ev = "open"
    /\ history[8].ev = "close"
    /\ history[8].from = "open"
    /\ history[8].delay = 1000
    /\ timers = <<1000>>

NoneLive == \A i \in DOMAIN sockets : sockets[i].readyState \in {"CLOSING", "CLOSED"}

\* C2: once stop() has been called no new transport is created, whether a
\* close event or a pending timer arrives afterwards, and close() has been
\* called on the transport that was live.
C2_StopIsFinal ==
    /\ [](stopped => NoneLive)
    /\ [][stopped => Len(sockets') = Len(sockets)]_vars

\* a timer that was pending at stop() has fired and connected nothing
C2_Witness ==
    /\ stopped
    /\ lastEv.kind = "timer"
    /\ timers = <<>>
    /\ Len(sockets) < MaxSockets

Live == {i \in DOMAIN sockets : ~sockets[i].closed}

\* C3: at most one of a transport that has not reported close and a pending
\* reconnection timer exists.
C3_OneAttempt == Cardinality(Live) + Len(timers) <= 1

\* a retry is pending after an earlier attempt failed with error and close
C3_Witness ==
    /\ Len(sockets) >= 2
    /\ Len(timers) = 1
    /\ Live = {}
    /\ ~stopped

\* C4: after stop(), a frame that reaches the transport that was live at stop
\* time changes no part of the State Store and does not set last-error.
C4_NoFrameAfterStop ==
    [][stopped /\ lastEv'.kind \in {"message", "late"}
          => UNCHANGED <<store, err>>]_vars

\* a frame arrived after stop() at a store that holds data
C4_Witness ==
    /\ stopped
    /\ lastEv.kind = "late"
    /\ lastEv.frame = Envelope("basis", JObj([es_spx_basis |-> JNum(1)]))
    /\ basis = JNull
    /\ err # JUndef

-----------------------------------------------------------------------------
(* Message Dispatcher and State Store *)

Topics == {"equity_ts", "basis", "options_ts", "sweeps", "blocks", "watchlist"}

Undecodable(f) == ~f.json \/ f.value = JNull
FaultMessage(f) == IF f.json THEN NullTopicError ELSE f.message
FrameTopic(f) == IF Undecodable(f) THEN "(fault)" ELSE TopicOf(f.value)
Dispatched(tp) == lastEv'.kind = "message" /\ FrameTopic(lastEv'.frame) = tp

\* uppercased, one leading "/" stripped
Canonical(s) ==
    LET u == [i \in 1..Len(s) |-> UpperChar(s[i])]
    IN  IF u # <<>> /\ u[1] = "/" THEN SubSeq(u, 2, Len(u)) ELSE u

\* the ticks an equity_ts frame carries: the payload itself or its rows
TicksOf(f) ==
    LET d == Get(f.value, "data")
    IN  IF d.t = "array" THEN d.v
        ELSE IF d.t = "object" /\ "rows" \in DOMAIN d.v /\ d.v.rows.t = "array"
             THEN d.v.rows.v
        ELSE <<>>

LatestFor(arr, c) ==
    LET idx == {i \in DOMAIN arr : Canonical(arr[i].symbol) = c}
    IN  arr[CHOOSE i \in idx : \A j \in idx : j <= i]

\* C5: after an equity_ts frame the equity map holds, under each canonical
\* symbol of the frame's ticks, exactly the last tick of the frame for that
\* symbol (its symbol canonical, no field of an earlier entry left), every
\* other entry is unchanged, and no step removes an entry.
C5_LatestTickPerSymbol ==
    [][/\ DOMAIN equity \subseteq DOMAIN equity'
       /\ Dispatched("equity_ts") =>
              LET arr == TicksOf(lastEv'.frame)
                  seen == {Canonical(arr[i].symbol) : i \in DOMAIN arr}
              IN  /\ DOMAIN equity' = DOMAIN equity \cup seen
                  /\ \A c \in DOMAIN equity' :
                        IF c \in seen
                        THEN equity'[c] = [LatestFor(arr, c) EXCEPT !.symbol = c]
                        ELSE equity'[c] = equity[c]]_vars

\* "/ES" with a last price was merged earlier; the frame with "ES" and then
\* "es" left the single entry ES, the bid-only tick, beside SPX
C5_Witness ==
    /\ lastEv.kind = "message"
    /\ lastEv.frame = EqTwice
    /\ DOMAIN equity = {sES, sSPX}
    /\ equity[sES] = [symbol |-> sES, bid |-> 1]

Recent(s, k) == [i \in 1..k |-> s[Len(s) - k + i]]

FlowStep(prev, next, batch) ==
    /\ next = Recent(prev, IF Len(prev) < 400 THEN Len(prev) ELSE 400) \o batch
    /\ Len(next) <= 400 + Len(batch)

\* C6: after a batch of N events is appended, the sweeps (blocks) buffer is
\* the most recent min(400, previous length) entries of the previous buffer
\* followed by the N events, so it holds at most 400 + N entries and a batch
\* of more than 400 is kept whole.
C6_PruneThenAppend ==
    [][/\ Dispatched("sweeps") =>
              FlowStep(sweeps, sweeps', Get(lastEv'.frame.value, "data").v)
       /\ Dispatched("blocks") =>
              FlowStep(blocks, blocks', Get(lastEv'.frame.value, "data").v)]_vars

\* a batch of 401 lost its oldest event when one more event arrived
C6_Witness ==
    /\ nflow = 2
    /\ lastEv.kind = "message"
    /\ lastEv.frame = Envelope("sweeps", JArr(Batch(1, 0)))
    /\ sweeps = SubSeq(Batch(401, 0), 2, 401) \o Batch(1, 0)

StNext == [equity |-> equity', options |-> options', sweeps |-> sweeps',
           blocks |-> blocks', wl |-> wl', err |-> err', basis |-> basis']

Slices(st) == <<st.equity, st.options, st.sweeps, st.blocks, st.wl, st.basis>>

\* C7: a frame that cannot be decoded sets last-error to the failure's
\* message, leaves the State Store and the connection status unchanged, and
\* every frame is dispatched afterwards as it would have been before.
C7_BadFrameIsDropped ==
    [][Dispatched("(fault)") =>
          /\ err' = JStr(FaultMessage(lastEv'.frame))
          /\ UNCHANGED <<store, wsState, sockets, timers, retry, stopped>>
          /\ \A f \in DispatchFrames :
                \E before \in {OnMessage(St, f)}, after \in {OnMessage(StNext, f)} :
                    /\ Slices(after) = Slices(before)
                    /\ Undecodable(f) => after.err = before.err]_vars

\* null arrived as a frame over a store that holds ticks
C7_Witness ==
    /\ lastEv.kind = "message"
    /\ lastEv.frame = NullFrame
    /\ err = JStr(NullTopicError)
    /\ equity # <<>>
    /\ wsState = "open"

\* C8: a frame that decodes and carries none of the six topics (or no
\* topic) changes nothing: State Store, connection status, last-error.
C8_UnknownTopicIgnored ==
    [][( /\ lastEv'.kind = "message"
         /\ ~Undecodable(lastEv'.frame)
         /\ FrameTopic(lastEv'.frame) \notin Topics )
       => UNCHANGED <<store, err, wsState, sockets, timers, retry, stopped>>]_vars

\* a frame without topic arrived when the store held ticks and an error
C8_Witness ==
    /\ lastEv.kind = "message"
    /\ lastEv.frame = NoTopic
    /\ equity # <<>>
    /\ err # JUndef

\* C9: a frame changes only the slices of its topic: equity_ts the equity
\* map and basis, basis only basis, options_ts only the option list, sweeps
\* only sweeps, blocks only blocks, watchlist only the watchlist; a basis
\* frame with es_spx_basis null sets basis to null.
C9_TopicTouchesOwnSlice ==
    [][/\ Dispatched("equity_ts") => UNCHANGED <<options, sweeps, blocks, wl>>
       /\ Dispatched("basis") => UNCHANGED <<equity, options, sweeps, blocks, wl>>
       /\ Dispatched("options_ts") => UNCHANGED <<equity, basis, sweeps, blocks, wl>>
       /\ Dispatched("sweeps") => UNCHANGED <<equity, basis, options, blocks, wl>>
       /\ Dispatched("blocks") => UNCHANGED <<equity, basis, options, sweeps, wl>>
       /\ Dispatched("watchlist") =>
              UNCHANGED <<equity, basis, options, sweeps, blocks>>
       /\ (lastEv'.kind = "message" /\ lastEv'.frame = BasisNull) =>
              (basis' = JNull /\ equity' = equity)]_vars

\* a basis frame with null arrived over a store with ticks and sweeps
C9_Witness ==
    /\ lastEv.kind = "message"
    /\ lastEv.frame = BasisNull
    /\ basis = JNull
    /\ sES \in DOMAIN equity
    /\ sweeps # <<>>
    /\ options # <<>>

\* C10: basis is null or a finite number in every reachable state.
C10_BasisNullOrFinite == basis = JNull \/ isFiniteNum(basis)

-----------------------------------------------------------------------------
(* Snapshots: option rows and watchlist *)

PayloadOf(f) == Get(f.value, "data")

\* C11: after an options_ts frame the option row list is exactly the frame's
\* payload sequence, whatever the list held before: no earlier row survives,
\* nothing is merged, an empty payload empties the list.
C11_OptionsReplaced ==
    [][Dispatched("options_ts") => options' = PayloadOf(lastEv'.frame).v]_vars

\* an empty snapshot arrived in a session that had received a watchlist and
\* sweeps, and the list is empty
C11_Witness ==
    /\ lastEv.kind = "message"
    /\ lastEv.frame = Envelope("options_ts", JArr(<<>>))
    /\ options = <<>>
    /\ wl.options # <<>>
    /\ sweeps # <<>>

\* the k-th smallest member of a set of integers
Nth(S, k) == CHOOSE i \in S : Cardinality({j \in S : j <= i}) = k

\* the maximal runs of characters that are not separators, in order
Runs(s) ==
    LET starts == {i \in 1..Len(s) :
                      ~IsSep(s[i]) /\ (i = 1 \/ IsSep(s[i - 1]))}
        EndOf(i) == CHOOSE j \in i..Len(s) :
                        /\ \A k \in i..j : ~IsSep(s[k])
                        /\ j = Len(s) \/ IsSep(s[j + 1])
    IN  [k \in 1..Cardinality(starts) |->
            SubSeq(s, Nth(starts, k), EndOf(Nth(starts, k)))]

\* the candidates of an input: the runs of a string, the elements of a
\* sequence (as strings), none for any other input
Candidates(v) ==
    IF v.t = "array" THEN [i \in 1..Len(v.v) |-> ToStringChars(v.v[i])]
    ELSE IF v.t = "string" THEN Runs(v.chars)
    ELSE <<>>

\* a candidate without the white space around it, in upper case
Cleaned(c) ==
    LET ink == {i \in 1..Len(c) : c[i] \notin WhiteSpace}
    IN  IF ink = {} THEN <<>>
        ELSE LET a == CHOOSE i \in ink : \A j \in ink : i <= j
                 b == CHOOSE i \in ink : \A j \in ink : j <= i
             IN  [i \in 1..(b - a + 1) |-> UpperChar(c[a + i - 1])]

Alnum == Range(Upper) \cup Digits

\* 1 to 10 characters, the first alphanumeric, the others alphanumeric or
\* one of . - _ /
ValidTicker(c) ==
    /\ Len(c) \in 1..10
    /\ c[1] \in Alnum
    /\ \A i \in 2..Len(c) : c[i] \in Alnum \cup {".", "-", "_", "/"}

\* the members of a sequence at their first occurrence, in order
FirstOccurrences(q) ==
    LET firsts == {i \in 1..Len(q) : \A j \in 1..(i - 1) : q[j] # q[i]}
    IN  [k \in 1..Cardinality(firsts) |-> q[Nth(firsts, k)]]

\* the valid tickers of an input, without duplicates, in first-occurrence order
ValidTickers(v) ==
    LET cs == Candidates(v)
        cleaned == [i \in 1..Len(cs) |-> Cleaned(cs[i])]
    IN  FirstOccurrences(SelectSeq(cleaned, ValidTicker))

\* C12: after a watchlist frame the watchlist is the normalisation of that
\* frame's payload alone: equities are the valid, de-duplicated tickers of
\* payload.equities, options is payload.options when that is a sequence and
\* empty otherwise; nothing of the previous watchlist survives; a missing or
\* malformed field gives an empty list and no error.
C12_WatchlistReplaced ==
    [][Dispatched("watchlist") =>
          LET raw == PayloadOf(lastEv'.frame)
              opts == OptGet(raw, "options")
          IN  /\ wl' = [equities |-> ValidTickers(OptGet(raw, "equities")),
                        options |-> IF opts.t = "array" THEN opts.v ELSE <<>>]
              /\ err' = err]_vars

\* the malformed payload emptied a watchlist; the frames before it had left
\* option rows and no error
C12_Witness ==
    /\ lastEv.kind = "message"
    /\ lastEv.frame = WatchMalformed
    /\ wl = [equities |-> <<>>, options |-> <<>>]
    /\ err = JUndef
    /\ options # <<>>

\* C13: parseSymbolsList returns exactly the candidates of its input (the
\* runs between separators of a string, the elements of a sequence, none for
\* another input) that, trimmed and in upper case, are 1 to 10 characters,
\* the first alphanumeric and the others alphanumeric or . - _ /, without
\* duplicates and in first-occurrence order; the inputs of SymbolExamples
\* give the tickers listed with them.
C13_ParsedSymbols ==
    (lastEv.kind = "message") =>
        /\ wl.equities = ValidTickers(Get(PayloadOf(lastEv.frame), "equities"))
        /\ \A ex \in SymbolExamples :
              (lastEv.frame = SymbolFrame(JChars(ex[1]))) => wl.equities = ex[2]

\* "a a" was parsed to the single ticker A
C13_Witness ==
    /\ lastEv.kind = "message"
    /\ lastEv.frame = SymbolFrame(JChars(<<"a", " ", "a">>))
    /\ wl.equities = <<<<"A">>>>

-----------------------------------------------------------------------------
(* Derived views *)

\* qty * price * 100 in fixed point, a missing qty or price counted as 0,
\* rounded to the nearest whole number
RoundedProduct(e) ==
    LET q == IF "qty" \in DOMAIN e THEN e.qty ELSE 0
        p == IF "price" \in DOMAIN e THEN e.price ELSE 0
        exact == q * p
        whole == CHOOSE w \in {Fx(k) : k \in (exact \div 100 - 1)..(exact \div 100 + 1)} :
                     /\ 2 * (exact - w) < 100
                     /\ 2 * (w - exact) <= 100
    IN  whole

Buffered == Range(sweeps) \cup Range(blocks)

\* C14: notionalOf(event) is the event's explicit notional whenever it has
\* one, whatever qty and price are, and otherwise round(qty * price * 100)
\* with a missing qty or price counted as 0; {qty 10, price 5} gives 5000
\* and {notional 999, qty 1, price 1} gives 999.
C14_NotionalOf ==
    /\ \A e \in Buffered :
          notionalOf(e) = IF "notional" \in DOMAIN e THEN e.notional
                          ELSE RoundedProduct(e)
    /\ Sweep1 \in Buffered => notionalOf(Sweep1) = Fx(5000)
    /\ Sweep2 \in Buffered => notionalOf(Sweep2) = Fx(999)

\* the positions of a buffer whose notional, and whose qty, meets a threshold
PassNotional(buf, n) == {i \in 1..Len(buf) : notionalOf(buf[i]) >= n}
PassQty(buf, q) ==
    {i \in 1..Len(buf) : (IF "qty" \in DOMAIN buf[i] THEN buf[i].qty ELSE 0) >= q}

\* the events at the positions that meet both thresholds, in buffer order
Kept(buf, n, q) ==
    LET idx == PassNotional(buf, n) \cap PassQty(buf, q)
    IN  [k \in 1..Cardinality(idx) |-> buf[Nth(idx, k)]]

\* C16: the filtered sweep (block) view holds exactly the buffered events
\* with notionalOf(e) >= minNotional and qty(e) >= minQty, in buffer order;
\* each threshold selects positions by itself and the view is their
\* intersection; sweeps and blocks are filtered by the same predicate.
C16_FilteredViews ==
    /\ filteredSweeps = Kept(sweeps, minNotional, minQty)
    /\ filteredBlocks = Kept(blocks, minNotional, minQty)

\* of two buffered sweeps, the one without price meets the qty threshold
\* only and is filtered out; the blocks view is empty like its buffer
C16_Witness ==
    /\ sweeps = <<SweepNoPrice, Sweep1>>
    /\ minNotional = Fx(1000)
    /\ minQty = Fx(3)
    /\ filteredSweeps = <<Sweep1>>
    /\ filteredBlocks = <<>>

RECURSIVE RowCount(_)
RowCount(groups) ==
    IF groups = <<>> THEN 0
    ELSE Len(Head(groups).rows) + RowCount(Tail(groups))

GroupsOf(r) == {g \in DOMAIN optGrouped : r \in Range(optGrouped[g].rows)}
FirstSeen(g) ==
    CHOOSE i \in DOMAIN options :
        /\ g \in GroupsOf(options[i])
        /\ \A j \in 1..(i - 1) : g \notin GroupsOf(options[j])

\* two rows are in the same group exactly when they have the same underlying
\* and the same expiration
GroupedByPair ==
    \A i, j \in DOMAIN options :
        (GroupsOf(options[i]) \cap GroupsOf(options[j]) # {})
            <=> /\ options[i].underlying = options[j].underlying
                /\ options[i].expiration = options[j].expiration

\* every row is in exactly one group and the groups hold no other row
GroupsPartition ==
    /\ \A i \in DOMAIN options : Cardinality(GroupsOf(options[i])) = 1
    /\ \A g \in DOMAIN optGrouped : optGrouped[g].rows # <<>>
    /\ RowCount(optGrouped) = Len(options)

GroupsSorted ==
    \A g \in DOMAIN optGrouped :
        \A a, b \in DOMAIN optGrouped[g].rows :
            a < b => optGrouped[g].rows[a].strike <= optGrouped[g].rows[b].strike

GroupsInFirstSeenOrder ==
    \A g, h \in DOMAIN optGrouped : g < h => FirstSeen(g) < FirstSeen(h)

\* C15: the option grouping partitions the rows by the pair (underlying,
\* expiration): two rows are in the same group exactly when they have the
\* same underlying and the same expiration, every row is in exactly one
\* group, the rows of a group are in ascending strike order, the groups are
\* in first-seen order; AAPL 2025-01-17 at strikes 150, 140 and one row of
\* AAPL 2025-02-21 give two groups, the first with strikes 140, 150.
C15_OptionGroups ==
    /\ GroupedByPair
    /\ GroupsPartition
    /\ GroupsSorted
    /\ GroupsInFirstSeenOrder
    /\ options = <<Row1, Row2, Row3>> =>
           /\ Len(optGrouped) = 2
           /\ optGrouped[1].rows = <<Row2, Row1>>
           /\ optGrouped[2].rows = <<Row3>>

-----------------------------------------------------------------------------
(* Implied volatility *)

PositiveFinite(iv) == iv.t = "number" /\ iv.fin /\ iv.milli > 0

\* the integer nearest to x thousandths, the upper one of two
Nearest(x) ==
    CHOOSE k \in (x \div 1000)..(x \div 1000 + 1) :
        /\ 2 * (x - 1000 * k) < 1000
        /\ 2 * (1000 * k - x) <= 1000

Shown(c) == ivCells[c]
Given(c) == IvOf(equity[c])

\* a non-finite or non-positive input renders as missing, a positive input
\* v <= 1.5 as round(100 * v) percent; 0.23 gives 23%, 45 gives 45%, 1.4
\* gives 140%, -1 is missing
IvSmallAndMissing ==
    \A c \in DOMAIN equity :
        /\ ~PositiveFinite(Given(c)) => Shown(c) = Dash
        /\ (PositiveFinite(Given(c)) /\ Given(c).milli <= 1500) =>
               Shown(c) = PercentText(Nearest(100 * Given(c).milli))
        /\ Given(c) = JMilli(230) => Shown(c) = <<"2", "3", "%">>
        /\ Given(c) = JMilli(45000) => Shown(c) = <<"4", "5", "%">>
        /\ Given(c) = JMilli(1400) => Shown(c) = <<"1", "4", "0", "%">>
        /\ Given(c) = JMilli(0 - 1000) => Shown(c) = Dash

\* the rendered percentage never exceeds 300
IvAtMost300 ==
    \A c \in DOMAIN equity :
        Shown(c) # Dash => \E k \in 0..300 : Shown(c) = PercentText(k)

\* C17 as claimed: an input v > 1.5 renders as round(v) percent.
C17_IvPercentUncapped ==
    /\ IvSmallAndMissing
    /\ IvAtMost300
    /\ \A c \in DOMAIN equity :
          (PositiveFinite(Given(c)) /\ Given(c).milli > 1500) =>
              Shown(c) = PercentText(Nearest(Given(c).milli))

\* C17: fmtIvPct renders a non-finite or non-positive input as missing, a
\* positive input v <= 1.5 as round(100 * v) percent and an input v > 1.5
\* as round(min(v, 300)) percent; the rendered percentage never exceeds 300.
C17_IvPercent ==
    /\ IvSmallAndMissing
    /\ IvAtMost300
    /\ \A c \in DOMAIN equity :
          (PositiveFinite(Given(c)) /\ Given(c).milli > 1500) =>
              Shown(c) = PercentText(Nearest(Min(Given(c).milli, 300 * 1000)))

\* the table shows 300% for an iv of 400 and 2% for an iv of 1.501
C17_Witness ==
    /\ DOMAIN equity = {sES, sSPX}
    /\ Given(sES) = JMilli(400000)
    /\ ivCells[sES] = <<"3", "0", "0", "%">>
    /\ Given(sSPX) = JMilli(1501)
    /\ ivCells[sSPX] = <<"2", "%">>

-----------------------------------------------------------------------------
(* Connection Manager: error, closure, stop *)

Scheduled(h) == Cardinality({p \in DOMAIN h : h[p].ev = "close"})
Failed(socks) == Cardinality({i \in DOMAIN socks : socks[i].closed})

\* C18: an error event sets the status to "error" and nothing else: it
\* schedules no reconnection and leaves retry alone; a close event while not
\* stopped schedules one timer and advances retry by one; so a failure that
\* is reported as error and close, in either order, has scheduled exactly
\* one timer: before stop there are as many reconnections scheduled as
\* sockets closed.
C18_ErrorOnlySetsStatus ==
    [][/\ (lastEv'.kind = "error") =>
              /\ wsState' = "error"
              /\ UNCHANGED <<timers, retry, history, stopped, wsRef, reactStore>>
       /\ (lastEv'.kind = "close" /\ ~stopped) =>
              /\ Len(timers') = Len(timers) + 1
              /\ retry' = retry + 1
       /\ ~stopped' => Scheduled(history') = Failed(sockets')]_vars

\* the second failure was reported as close and then error: two timers
\* were scheduled for two failures, retry is 2, the status is "error"
C18_Witness ==
    /\ lastEv.kind = "error"
    /\ sockets[lastEv.sock].closed
    /\ wsState = "error"
    /\ Len(history) = 2
    /\ history[1].ev = "close"
    /\ retry = 2
    /\ Len(timers) = 1
    /\ ~stopped

\* C19: whenever a transport has reported closure and stop() has not been
\* called, then (a pending timer fires eventually) either stop() is called
\* or the status becomes "connecting" again with a newly created transport;
\* the status does not stay "closed" for ever while not stopped.  The model
\* creates at most MaxSockets transports, the property is stated for the
\* closures before the last of them.
C19_ReconnectsAfterClose ==
    \A n \in 1..(MaxSockets - 1) :
        (wsState = "closed" /\ ~stopped /\ Len(sockets) = n)
            ~> (stopped \/ (wsState = "connecting" /\ Len(sockets) = n + 1))

\* the timer set by the close of the first transport fired and the second
\* transport is connecting
C19_Witness ==
    /\ lastEv.kind = "timer"
    /\ wsState = "connecting"
    /\ ~stopped
    /\ Len(sockets) = 2
    /\ sockets[1].closed
    /\ sockets[2].readyState = "CONNECTING"
    /\ timers = <<>>

\* C20: after stop() no open, close or error event of the transport that
\* was given up changes the status.
C20_StatusFrozenAfterStop == [][stopped => wsState' = wsState]_vars

-----------------------------------------------------------------------------
(* Derived views: purity, retention, display *)

Count(q, e) == Cardinality({i \in DOMAIN q : q[i] = e})

\* next is a final part of prev, as it was, followed by the batch as it came
Appended(prev, next, batch) ==
    /\ \E k \in 0..Len(prev) : next = SubSeq(prev, k + 1, Len(prev)) \o batch
    /\ \A e \in Range(batch) : Count(next, e) >= Count(batch, e)

\* C22: the sweeps and blocks buffers are append-only: a frame's events are
\* appended in payload order after the retained ones, the retained events
\* keep their order and their content, nothing is de-duplicated (an event
\* delivered twice is held twice), and no other step changes a buffer.
C22_AppendOnly ==
    [][/\ IF Dispatched("sweeps")
          THEN Appended(sweeps, sweeps', PayloadOf(lastEv'.frame).v)
          ELSE sweeps' = sweeps
       /\ IF Dispatched("blocks")
          THEN Appended(blocks, blocks', PayloadOf(lastEv'.frame).v)
          ELSE blocks' = blocks]_vars

\* the same event arrived in two sweeps frames and is held twice
C22_Witness ==
    /\ lastEv.kind = "message"
    /\ lastEv.frame = Envelope("sweeps", JArr(<<Sweep2>>))
    /\ sweeps = <<Sweep2, Sweep2>>
    /\ blocks = <<>>

MeetsThresholds(e) ==
    /\ notionalOf(e) >= minNotional
    /\ (IF "qty" \in DOMAIN e THEN e.qty ELSE 0) >= minQty

\* list is the last 200 entries of view, the newest first
LastNewestFirst(list, view) ==
    /\ Len(list) <= 200
    /\ Len(list) = IF Len(view) <= 200 THEN Len(view) ELSE 200
    /\ \A k \in 1..Len(list) : list[k] = view[Len(view) - k + 1]
    /\ \A k \in 1..Len(list) : MeetsThresholds(list[k])

\* C23: the displayed sweep (block) list is the last 200 entries of the
\* filtered view, newest first: it has at most 200 rows, it holds every
\* filtered event when there are at most 200, and no event that fails the
\* thresholds is in it.
C23_DisplayedLists ==
    /\ LastNewestFirst(displayedSweeps, filteredSweeps)
    /\ LastNewestFirst(displayedBlocks, filteredBlocks)

\* more than 200 of the buffered sweeps meet the thresholds, some do not;
\* 200 rows are displayed, the newest filtered sweep first
C23_Witness ==
    /\ Len(filteredSweeps) > 200
    /\ Len(filteredSweeps) < Len(sweeps)
    /\ Len(displayedSweeps) = 200
    /\ displayedSweeps[1] = filteredSweeps[Len(filteredSweeps)]
    /\ sweeps[Len(sweeps)] # displayedSweeps[1]

-----------------------------------------------------------------------------
(* Equity list, watchlist membership, thresholds *)

\* the orders in which the keys of a set can be listed
Orders(S) ==
    {p \in [1..Cardinality(S) -> S] :
        \A i, j \in 1..Cardinality(S) : p[i] = p[j] => i = j}

\* C24: the equity list has exactly one row per entry of the equity map and
\* nothing else, in ascending order of the canonical symbol, whatever the
\* order in which the ticks arrived (the order of the keys of the map).
C24_EquityRows ==
    /\ Len(equityRows) = Cardinality(DOMAIN equity)
    /\ \A c \in DOMAIN equity :
          \E k \in DOMAIN equityRows :
              /\ equityRows[k] = equity[c]
              /\ equityRows[k].symbol = c
    /\ \A k \in 1..(Len(equityRows) - 1) :
          LocaleBefore(equityRows[k].symbol, equityRows[k + 1].symbol)
    /\ \A p \in Orders(DOMAIN equity) : SortBySymbol(ValuesOf(p)) = equityRows

\* A_B arrived last, after ES, 1A, AB and SPX, and is the second row
C24_Witness ==
    /\ lastEv.kind = "message"
    /\ lastEv.frame = TickFrame(<<"a", "_", "b">>)
    /\ Len(equityRows) = 5
    /\ equityRows[1].symbol = <<"1", "A">>
    /\ equityRows[2].symbol = <<"A", "_", "B">>
    /\ equityRows[3].symbol = <<"A", "B">>
    /\ equityRows[4].symbol = sES
    /\ equityRows[5].symbol = sSPX

\* C25: after any watchlist frame the equities of the watchlist hold at
\* most one member per canonical symbol (upper case, one leading "/"
\* stripped); a payload that lists "/ES" and "ES" gives a single member.
C25_OneMemberPerSymbol ==
    /\ \A i, j \in DOMAIN wl.equities :
          Canonical(wl.equities[i]) = Canonical(wl.equities[j]) => i = j
    /\ (lastEv.kind = "message" /\ lastEv.frame = SymbolFrame(SlashAndPlain))
          => Len(wl.equities) = 1

\* "/ES", "ES" and "es" arrived in one payload and the watchlist holds ES
C25_Witness ==
    /\ lastEv.kind = "message"
    /\ lastEv.frame = SymbolFrame(SlashAndPlain)
    /\ wl.equities = <<sES>>

Defaults == minNotional = 0 /\ minQty = Fx(1)

ResetSetsBoth ==
    (lastEv'.kind = "reset") => (minNotional' = Fx(20000) /\ minQty' = Fx(50))

\* C26 as stated: with the thresholds 0 and 1 every buffered event passes,
\* the filtered views are the whole buffers; Reset sets (20000, 50).
C26_DefaultsPassAll ==
    [][/\ Defaults => (filteredSweeps = sweeps /\ filteredBlocks = blocks)
       /\ ResetSetsBoth]_vars

\* a qty of at least 1 and a notional that is not negative
AtLeastOneLot(e) ==
    /\ "qty" \in DOMAIN e
    /\ e.qty >= Fx(1)
    /\ notionalOf(e) >= 0

\* C26: with the thresholds 0 and 1 the filtered views hold exactly the
\* buffered events with a qty of at least 1 and a notional that is not
\* negative (the whole buffer when every event is such), in buffer order;
\* Reset sets the thresholds to (20000, 50) in one step whatever they were.
C26_DefaultsPassLots ==
    [][/\ Defaults => /\ filteredSweeps = SelectSeq(sweeps, AtLeastOneLot)
                      /\ filteredBlocks = SelectSeq(blocks, AtLeastOneLot)
                      /\ (\A e \in Buffered : AtLeastOneLot(e)) =>
                             (filteredSweeps = sweeps /\ filteredBlocks = blocks)
       /\ ResetSetsBoth]_vars

\* a negative notional threshold was typed and clamped to 0, the qty
\* threshold is 1; of the two buffered sweeps the one without qty is
\* filtered out
C26_Witness ==
    /\ Defaults
    /\ lastEv.kind = "filter"
    /\ sweeps = <<SweepNoQty, Sweep1>>
    /\ filteredSweeps = <<Sweep1>>

-----------------------------------------------------------------------------
(* Basis, State Store across reconnections, last-error, status *)

\* the es_spx_basis of a payload that is an object (not a sequence) and
\* carries a finite number there; null for every other payload
CarriedBasis(p) ==
    IF /\ p.t = "object"
       /\ "es_spx_basis" \in DOMAIN p.v
       /\ p.v.es_spx_basis.t = "number"
       /\ p.v.es_spx_basis.fin
    THEN p.v.es_spx_basis
    ELSE JNull

\* C27: every equity_ts frame overwrites basis: with the es_spx_basis of
\* the payload when that is a non-sequence object carrying a finite number
\* there, with null in every other case (a plain sequence of ticks, an
\* envelope without the field), also when the frame has no ticks and leaves
\* the equity map unchanged.
C27_EquityFrameSetsBasis ==
    [][Dispatched("equity_ts") =>
          /\ basis' = CarriedBasis(PayloadOf(lastEv'.frame))
          /\ TicksOf(lastEv'.frame) = <<>> => equity' = equity]_vars

\* an equity_ts frame without ticks and without a finite basis arrived over
\* a store with ticks and left basis null
C27_Witness ==
    /\ lastEv.kind = "message"
    /\ lastEv.frame = EqBadBasis
    /\ basis = JNull
    /\ DOMAIN equity = {sES, sSPX}

\* the events of the connection lifecycle
LifecycleKinds == {"start", "open", "error", "close", "timer", "stop"}

\* C28: the lifecycle events (open, error, close, a reconnection timer
\* firing, stop) never modify the State Store: equity map, option list,
\* sweeps and blocks buffers, watchlist, basis and last-error are retained
\* across any number of reconnections.
C28_LifecycleKeepsStore ==
    [][lastEv'.kind \in LifecycleKinds =>
          UNCHANGED <<equity, options, sweeps, blocks, wl, basis, err>>]_vars

\* the third transport opened and the store still holds the basis and the
\* error that arrived before
C28_Witness ==
    /\ lastEv = [kind |-> "open", sock |-> 3]
    /\ basis = JNum(1)
    /\ err = JStr("Unexpected end of JSON input")

Newest == sockets[Len(sockets)]
Unreported(s) == s.readyState = "CONNECTING" /\ s.canError /\ ~s.closed

\* C30: while stop() has not been called the status reflects the last
\* event of the newest transport: idle only before the first attempt,
\* connecting from the creation of a transport until it reports an event,
\* open only while the newest transport reported open and neither error nor
\* close since, closed for the whole time a reconnection timer is pending.
C30_StatusReflectsTransport ==
    ~stopped =>
        /\ (wsState = "idle") <=> (sockets = <<>>)
        /\ sockets # <<>> =>
               /\ wsRef = Len(sockets)
               /\ (wsState = "connecting") <=> Unreported(Newest)
               /\ (wsState = "open") <=> (Newest.readyState = "OPEN")
               /\ (wsState = "error") <=> (~Newest.closed /\ ~Newest.canError)
               /\ (wsState = "closed") <=> Newest.closed
        /\ timers # <<>> => wsState = "closed"
        /\ wsState = "closed" => Len(timers) = 1

\* the second transport failed and closed; its reconnection timer is pending
C30_Witness ==
    /\ ~stopped
    /\ lastEv = [kind |-> "close", sock |-> 2, afterError |-> TRUE]
    /\ Len(timers) = 1
    /\ wsState = "closed"

====
